---- MODULE Spec2Model ----
(***************************************************************************)
(* A model of three independent programs of the skills repository:         *)
(*   - skills/wrappers/monte_ladder_goal_wrapper.py (MonteLadderGoalWrapper)*)
(*   - skills/baseline/plot.py (the plotting command line)                 *)
(*   - skills/ensemble/train.py (TrainEnsembleOfSkills)                    *)
(* Each program has its own specification; the variables of the programs   *)
(* that are not running stay at their idle values.                         *)
(***************************************************************************)
EXTENDS Integers, Sequences, FiniteSets, TLC

VARIABLES
    (* ---- MonteLadderGoalWrapper ---- *)
    info_only,          \* self.info_only
    epsilon_tol,        \* self.epsilon_tol
    room_number,        \* self.room_number
    goal_regions,       \* self.goal_regions, a GoalsCollection
    ram,                \* the emulator RAM: the player's room and (x, y)
    needs_real_reset,   \* self.env.unwrapped.needs_real_reset
    env_out,            \* what the wrapped env.step produced in the last step
    ret,                \* what MonteLadderGoalWrapper.step returned last
    w_pc,               \* "off", "constructed", "stepped", "reset"
    (* ---- plot.py ---- *)
    args,               \* the parsed command line flags
    called,             \* the plotting functions __main__ has called, in order
    p_pc,               \* "off", "main", "listing", "seeds", "plotting", "exit", "raised",
                        \* "gap_listing", "gap_seeds", "gap_concat"
    game,               \* plot_eight_procgen_games: the index i of the loop, from 1
    last_entry,         \* process_training_curve_csv_file: the entries of exp_dir consumed
    agent,              \* ... the agent directory being read
    seeds,              \* ... os.listdir(agent_dir)
    seed_i,             \* ... the index of the seed directory to read next
    rewards,            \* ... the agents of the dataframes appended to rewards
    visited_csv,        \* ... the state of every progress.csv the call has met
    returns,            \* how many times process_training_curve_csv_file returned
    agents,             \* plot_transfer_exp_all_level_curves: rewards['agent'].unique()
    drawn,              \* the number of sns.lineplot calls made
    error,              \* the exception that ended the script, or "none"
    saved,              \* the output files written
    gap_rewards,        \* plot_all_agents_generalization_gap: rewards, a list or a
                        \* DataFrame, and the (agent, seed) pairs whose rows it holds
    gap_listed,         \* ... the agent directories it has listed, with their seeds
    (* ---- train.py ---- *)
    params,             \* self.params
    t_pc,               \* "off", "setup", "loop", "acted", "stepped", "observed", "done"
    caught,             \* the number of AssertionErrors raised and caught
    step_number,        \* train_option: step_number
    episode_number,     \* train_option: episode_number
    last_step,          \* train_option: the (reward, done) of the last env.step
    env_log,            \* every (reward, done) env.step has returned, in order
    calls,              \* how often agent.act, env.step, agent.observe,
                        \* env.reset, agent.save and test_ensemble_agent were called
    total_reward,       \* self.total_reward
    success_rates,      \* self.success_rates, a deque(maxlen=10)
    success_rate_csv,   \* the rows of success_rate.csv
    total_reward_csv    \* the rows of total_reward.csv

wvars == <<info_only, epsilon_tol, room_number, goal_regions, ram,
           needs_real_reset, env_out, ret, w_pc>>
pvars == <<args, called, p_pc, game, last_entry, agent, seeds, seed_i, rewards,
           visited_csv, returns, agents, drawn, error, saved, gap_rewards, gap_listed>>

tvars == <<params, t_pc, caught, step_number, episode_number, last_step, env_log, calls,
           total_reward, success_rates, success_rate_csv, total_reward_csv>>

vars == <<wvars, pvars, tvars>>

(***************************************************************************)
(* Bounds of the model                                                     *)
(***************************************************************************)
\* x coordinates of the player and of the goals range over 0..MaxCoord
MaxCoord == 1
\* epsilon_tol ranges over 1..MaxTol
MaxTol == 2
\* agent directories are named after MaxBases agents, each in lower case or
\* with a capital first letter
MaxBases == 4
\* an agent directory lists at most MaxSeeds entries
MaxSeeds == 2
\* params['steps'] ranges over 0..MaxSteps
MaxSteps == 4
\* in the long training run an episode lasts at most EpisodeLen steps
EpisodeLen == 4

\* the rooms of the model: one with a single ladder and the one with three
Rooms == {0, 1}
Positions == (0 .. MaxCoord) \X (0 .. 1)
\* rewards of the wrapped environment (100 is the reward of a key)
EnvRewards == {0, 100}
\* info.get("needs_reset", False): the key may be absent
NeedsResetField == {"absent", "True"}

(***************************************************************************)
(* monte_ladder_goal_wrapper.py                                            *)
(***************************************************************************)
\* the keys of room_to_goals
RoomKeys == {0, 1, 2, 3, 4, 5, 6, 7, 10, 11, 13, 14}

\* the number of goal files room_to_goals lists for a room
NumGoalFiles(room) == IF room = 1 THEN 3 ELSE 1

\* GoalsCollection.__init__: the room and the list of loaded goal positions
GoalsCollection(room, goals) == [room |-> room, goals |-> goals]

\* the square of np.linalg.norm(p - g)
SqNorm(p, g) == (p[1] - g[1]) * (p[1] - g[1]) + (p[2] - g[2]) * (p[2] - g[2])

\* a bug variant: the goal region is a closed ball
is_within_goal_position_closed(gc, room, player_pos, tol) ==
    IF room # gc.room THEN FALSE
    ELSE \E i \in 1 .. Len(gc.goals) : SqNorm(player_pos, gc.goals[i]) <= tol * tol

\* GoalsCollection.is_within_goal_position
is_within_goal_position(gc, room, player_pos, tol) ==
    IF room # gc.room THEN FALSE
    ELSE \E i \in 1 .. Len(gc.goals) : SqNorm(player_pos, gc.goals[i]) < tol * tol

\* MonteLadderGoalWrapper.reached_goal
reached_goal(player_pos, room) ==
    LET in_same_room == room = room_number
        in_goal_region == is_within_goal_position(goal_regions, room, player_pos, epsilon_tol)
    IN in_same_room /\ in_goal_region

\* info.get("needs_reset", False)
InfoNeedsReset(info) == info.needs_reset = "True"

\* a bug variant: leaving the room does not end the episode
finished_skill_stays(player_pos, room, done, info) ==
    LET rg == reached_goal(player_pos, room)
        done1 == IF rg THEN TRUE ELSE done
    IN [reward |-> IF rg THEN 1 ELSE 0,
        done |-> done1,
        info |-> [needs_reset |-> info.needs_reset, reached_goal |-> rg],
        needs_real_reset |-> done1 \/ InfoNeedsReset(info)]

\* MonteLadderGoalWrapper.finished_skill: the returned (reward, done, info)
\* and the value it assigns to env.unwrapped.needs_real_reset
finished_skill(player_pos, room, done, info) ==
    LET rg == reached_goal(player_pos, room)
        done1 == IF rg THEN TRUE ELSE done
        reward == IF rg THEN 1 ELSE 0
        in_same_room == room = room_number
        done2 == IF ~in_same_room THEN TRUE ELSE done1
    IN [reward |-> reward,
        done |-> done2,
        info |-> [needs_reset |-> info.needs_reset, reached_goal |-> rg],
        needs_real_reset |-> done2 \/ InfoNeedsReset(info)]

NoOut == [reward |-> 0, done |-> FALSE, needs_reset |-> "absent",
          needs_real_reset |-> FALSE]
NoRet == [reward |-> 0, done |-> FALSE,
          info |-> [needs_reset |-> "absent", reached_goal |-> FALSE]]

\* the lists of goal positions the goal files of a room may hold: the
\* ladders of a room stand at different places, and a goal is looked for
\* anywhere in the list, so lists that differ only in their order are
\* represented by one of them
Before(p, q) == p[1] < q[1] \/ (p[1] = q[1] /\ p[2] < q[2])
GoalLists(room) ==
    {g \in [1 .. NumGoalFiles(room) -> Positions] :
        \A i \in 1 .. (Len(g) - 1) : Before(g[i], g[i + 1])}

\* the wrapper when no wrapper is under study
WrapperOff ==
    /\ w_pc = "off"
    /\ info_only = FALSE
    /\ epsilon_tol = 1
    /\ room_number = 0
    /\ goal_regions = GoalsCollection(0, <<>>)
    /\ ram = [room |-> 0, pos |-> <<0, 0>>]
    /\ needs_real_reset = FALSE
    /\ env_out = NoOut
    /\ ret = NoRet

\* MonteLadderGoalWrapper.__init__: the state after construction, in a room
\* that has goals, with the goal files holding any positions
WrapperConstructed ==
    /\ w_pc = "constructed"
    /\ info_only \in BOOLEAN
    /\ epsilon_tol \in 1 .. MaxTol
    /\ ram \in [room : Rooms \cap RoomKeys, pos : Positions]
    /\ room_number = ram.room
    /\ \E goals \in GoalLists(ram.room) :
          goal_regions = GoalsCollection(ram.room, goals)
    /\ needs_real_reset \in BOOLEAN
    /\ env_out = NoOut
    /\ ret = NoRet

\* the caller steps an episode until step returns done and then resets
\* (train_option does), so step is not called on a finished episode
EpisodeRunning == w_pc \in {"constructed", "reset"} \/ (w_pc = "stepped" /\ ~ret.done)

\* a bug variant: the wrapper follows the player into the new room
step_tracks_room ==
    /\ EpisodeRunning
    /\ \E r \in [room : Rooms, pos : Positions] :
          /\ ram' = r
          /\ room_number' = r.room
    /\ w_pc' = "stepped"
    /\ ret' = [ret EXCEPT !.done = FALSE]
    /\ UNCHANGED <<info_only, epsilon_tol, goal_regions, needs_real_reset, env_out>>
    /\ UNCHANGED <<pvars, tvars>>

\* MonteLadderGoalWrapper.step: the wrapped env.step moves the player and
\* produces (reward, done, info); finished_skill overrides them
step ==
    /\ EpisodeRunning
    /\ \E r \in [room : Rooms, pos : Positions],
          reward \in EnvRewards, done \in BOOLEAN,
          nr \in NeedsResetField, env_nrr \in BOOLEAN :
          LET info == [needs_reset |-> nr]
              fs == finished_skill(r.pos, r.room, done, info)
          IN /\ ram' = r
             /\ env_out' = [reward |-> reward, done |-> done, needs_reset |-> nr,
                            needs_real_reset |-> env_nrr]
             /\ needs_real_reset' = fs.needs_real_reset
             /\ ret' = [reward |-> IF ~info_only THEN fs.reward ELSE reward,
                        done |-> IF ~info_only THEN fs.done ELSE done,
                        info |-> fs.info]
    /\ w_pc' = "stepped"
    /\ UNCHANGED <<info_only, epsilon_tol, room_number, goal_regions>>
    /\ UNCHANGED <<pvars, tvars>>

\* reset is not overridden: gym.Wrapper.reset calls the wrapped env.reset,
\* which reads needs_real_reset, puts the player somewhere and touches no
\* field of the wrapper
reset ==
    /\ w_pc \in {"constructed", "stepped", "reset"}
    /\ ram' \in [room : Rooms, pos : Positions]
    /\ needs_real_reset' = needs_real_reset
    /\ env_out' = NoOut
    /\ ret' = NoRet
    /\ w_pc' = "reset"
    /\ UNCHANGED <<info_only, epsilon_tol, room_number, goal_regions>>
    /\ UNCHANGED <<pvars, tvars>>

NextWrapper == step \/ reset

(***************************************************************************)
(* plot.py                                                                 *)
(***************************************************************************)
Flags == {"compare", "gap", "evaluation", "train", "transfer", "unrolled",
          "procgen", "debug"}

\* the games of plot_eight_procgen_games
NumGames == 8

\* a directory name: an agent's name, in lower case or with its first letter
\* in upper case
Names == [base : 1 .. MaxBases, upper : BOOLEAN]

\* first_char_upper: the first letter in upper case, the rest as it is
first_char_upper(name) == [base |-> name.base, upper |-> TRUE]

\* os.listdir returns the entries of exp_dir in some order; the model numbers
\* the possible names and goes through them in increasing number: each is a
\* directory of exp_dir, or is skipped (a plain file, or no entry of exp_dir)
EntryNumber(name) == 2 * name.base - (IF name.upper THEN 1 ELSE 0)

\* a seed directory: the state of its progress.csv and whether int(seed)
\* accepts its name
CsvStates == {"missing", "empty", "incomplete", "complete"}
\* (the name is read only once the csv has passed both assertions, so the
\* names that int() rejects are modelled on complete csv files)
SeedDirs == {d \in [csv : CsvStates, int_name : BOOLEAN] :
                ~d.int_name => d.csv = "complete"}
SeedLists == UNION {[1 .. n -> SeedDirs] : n \in 0 .. MaxSeeds}

NoName == [base |-> 0, upper |-> FALSE]
\* plot_all_agents_generalization_gap: rewards = []
NoFrames == [kind |-> "list", rows |-> {}]

\* plot.py when no plot is under study
PlotOff ==
    /\ p_pc = "off"
    /\ args = [f \in Flags |-> FALSE]
    /\ called = <<>>
    /\ game = 0
    /\ last_entry = 0
    /\ agent = NoName
    /\ seeds = <<>>
    /\ seed_i = 1
    /\ rewards = {}
    /\ visited_csv = {}
    /\ returns = 0
    /\ agents = {}
    /\ drawn = 0
    /\ error = "none"
    /\ saved = {}
    /\ gap_rewards = NoFrames
    /\ gap_listed = {}

\* parser.parse_args(): every flag is a store_true flag, --load is given
PlotStarted ==
    /\ p_pc = "main"
    /\ args \in [Flags -> BOOLEAN]
    /\ called = <<>>
    /\ game = 0
    /\ last_entry = 0
    /\ agent = NoName
    /\ seeds = <<>>
    /\ seed_i = 1
    /\ rewards = {}
    /\ visited_csv = {}
    /\ returns = 0
    /\ agents = {}
    /\ drawn = 0
    /\ error = "none"
    /\ saved = {}
    /\ gap_rewards = NoFrames
    /\ gap_listed = {}

Call(fn, arg) == [fn |-> fn, arg |-> arg]

\* a bug variant: --gap is tested before --compare
Dispatch_gap_first(a) ==
    IF a["gap"] THEN Call("plot_all_agents_generalization_gap", "none")
    ELSE IF a["compare"] THEN Call("plot_all_agents_reward_data", "none")
    ELSE IF a["evaluation"] THEN Call("plot_train_eval_curve", "eval")
    ELSE IF a["train"] THEN Call("plot_train_eval_curve", "train")
    ELSE IF a["transfer"] THEN
        IF a["debug"] THEN Call("plot_transfer_exp_all_level_curves", "none")
        ELSE Call("plot_transfer_exp_training_curve_across_levels",
                  IF a["unrolled"] THEN "unrolled" ELSE "averaged")
    ELSE IF a["procgen"] THEN Call("plot_eight_procgen_games", "none")
    ELSE Call("plot_reward_curve", "none")

\* the if/elif chain of __main__: the function called and its argument
Dispatch(a) ==
    IF a["compare"] THEN Call("plot_all_agents_reward_data", "none")
    ELSE IF a["gap"] THEN Call("plot_all_agents_generalization_gap", "none")
    ELSE IF a["evaluation"] THEN Call("plot_train_eval_curve", "eval")
    ELSE IF a["train"] THEN Call("plot_train_eval_curve", "train")
    ELSE IF a["transfer"] THEN
        IF a["debug"] THEN Call("plot_transfer_exp_all_level_curves", "none")
        ELSE Call("plot_transfer_exp_training_curve_across_levels",
                  IF a["unrolled"] THEN "unrolled" ELSE "averaged")
    ELSE IF a["procgen"] THEN Call("plot_eight_procgen_games", "none")
    ELSE Call("plot_reward_curve", "none")

\* the functions that start by calling process_training_curve_csv_file
ProcessCallers == {"plot_transfer_exp_training_curve_across_levels",
                   "plot_transfer_exp_all_level_curves",
                   "plot_eight_procgen_games"}

Running == called[Len(called)]

\* __main__: the selected function is called; the three that read the
\* training curves enter process_training_curve_csv_file, and
\* plot_all_agents_generalization_gap enters its loop over exp_dir
main ==
    /\ p_pc = "main"
    /\ LET c == Dispatch(args)
       IN /\ called' = Append(called, c)
          /\ p_pc' = IF c.fn \in ProcessCallers THEN "listing"
                     ELSE IF c.fn = "plot_all_agents_generalization_gap" THEN "gap_listing"
                     ELSE "plotting"
          /\ game' = IF c.fn = "plot_eight_procgen_games" THEN 1 ELSE game
    /\ UNCHANGED <<args, last_entry, agent, seeds, seed_i, rewards, visited_csv,
                   returns, agents, drawn, error, saved>>
    /\ UNCHANGED <<gap_rewards, gap_listed>>
    /\ UNCHANGED <<wvars, tvars>>

\* a bug variant: the exception is caught and the script ends normally
Raise_caught(e) ==
    /\ p_pc' = "exit"
    /\ error' = e

\* no function of plot.py catches an exception (the except clause of
\* process_training_curve_csv_file re-raises): the script ends with it
Raise(e) ==
    /\ p_pc' = "raised"
    /\ error' = e

\* process_training_curve_csv_file, `if not os.path.isdir(agent_dir): continue`
SkipEntry ==
    /\ p_pc = "listing"
    /\ \E n \in Names :
          /\ EntryNumber(n) = last_entry + 1
          /\ last_entry' = EntryNumber(n)
    /\ UNCHANGED <<args, called, p_pc, game, agent, seeds, seed_i, rewards,
                   visited_csv, returns, agents, drawn, error, saved>>
    /\ UNCHANGED <<gap_rewards, gap_listed>>
    /\ UNCHANGED <<wvars, tvars>>

\* process_training_curve_csv_file: the next entry of exp_dir is a directory,
\* and its entries are listed
EnterAgentDir ==
    /\ p_pc = "listing"
    /\ \E n \in Names, l \in SeedLists :
          /\ EntryNumber(n) = last_entry + 1
          /\ last_entry' = EntryNumber(n)
          /\ agent' = n
          /\ seeds' = l
          /\ seed_i' = 1
          /\ p_pc' = IF Len(l) = 0 THEN "listing" ELSE "seeds"
    /\ UNCHANGED <<args, called, game, rewards, visited_csv, returns, agents,
                   drawn, error, saved>>
    /\ UNCHANGED <<gap_rewards, gap_listed>>
    /\ UNCHANGED <<wvars, tvars>>

\* a bug variant: the number of steps of the csv is not checked
SeedOutcome_unchecked(seed) ==
    IF seed.csv = "missing" THEN "AssertionError"
    ELSE IF seed.csv = "empty" THEN "EmptyDataError"
    ELSE IF ~seed.int_name THEN "ValueError"
    ELSE "appended"

\* the body of the seed loop: the exception it raises, or "appended"
SeedOutcome(seed) ==
    IF seed.csv = "missing" THEN "AssertionError"          \* assert os.path.exists
    ELSE IF seed.csv = "empty" THEN "EmptyDataError"       \* pandas.read_csv, re-raised
    ELSE IF seed.csv # "complete" THEN "AssertionError"    \* assert max == 10_000_000
    ELSE IF ~seed.int_name THEN "ValueError"               \* int(seed)
    ELSE "appended"

\* process_training_curve_csv_file: one pass of the seed loop
ReadSeed ==
    /\ p_pc = "seeds"
    /\ LET seed == seeds[seed_i]
           out == SeedOutcome(seed)
       IN /\ visited_csv' = visited_csv \cup {seed.csv}
          /\ IF out = "appended"
             THEN /\ rewards' = rewards \cup {first_char_upper(agent)}
                  /\ seed_i' = seed_i + 1
                  /\ p_pc' = IF seed_i = Len(seeds) THEN "listing" ELSE "seeds"
                  /\ error' = error
             ELSE /\ Raise(out)
                  /\ UNCHANGED <<rewards, seed_i>>
    /\ UNCHANGED <<args, called, game, last_entry, agent, seeds, returns, agents,
                   drawn, saved>>
    /\ UNCHANGED <<gap_rewards, gap_listed>>
    /\ UNCHANGED <<wvars, tvars>>

\* a bug variant: up to four agents are accepted
AgentCountOk_at_most(a) == Cardinality(a) <= 4

\* plot_transfer_exp_all_level_curves: assert len(agents) == 4
AgentCountOk(a) == Cardinality(a) = 4

\* the state of the call of process_training_curve_csv_file that ended
CallEnded ==
    /\ last_entry' = 0
    /\ agent' = NoName
    /\ seeds' = <<>>
    /\ seed_i' = 1
    /\ rewards' = {}

\* the listing of exp_dir is exhausted: process_training_curve_csv_file
\* concatenates, drops the rows up to the last one holding a NaN (and, when
\* not averaging, the rows off the 5000-step grid), and returns to its
\* caller, which goes on to its end or to its next call
EndListing ==
    /\ p_pc = "listing"
    /\ IF rewards = {}
       THEN \* pandas.concat([]) raises ValueError
            /\ Raise("ValueError")
            /\ UNCHANGED <<game, last_entry, agent, seeds, seed_i, rewards,
                           visited_csv, returns, agents, drawn, saved>>
       ELSE /\ returns' = returns + 1
            /\ CASE Running.fn = "plot_transfer_exp_training_curve_across_levels" ->
                      /\ drawn' = drawn + 1
                      /\ saved' = {IF Running.arg = "unrolled"
                                   THEN "training_curve_unrolled.png"
                                   ELSE "training_curve.png"}
                      /\ p_pc' = "exit"
                      /\ UNCHANGED <<game, last_entry, agent, seeds, seed_i, rewards,
                                     visited_csv, agents, error>>
                 [] Running.fn = "plot_transfer_exp_all_level_curves" ->
                      \* the agents that still have rows in the returned data
                      /\ \E subset \in SUBSET rewards :
                            /\ agents' = subset
                            /\ IF AgentCountOk(subset)
                               THEN /\ drawn' = drawn + Cardinality(subset)
                                    /\ saved' = {"all_level_learning_curve.png"}
                                    /\ p_pc' = "exit"
                                    /\ error' = error
                               ELSE /\ Raise("AssertionError")
                                    /\ UNCHANGED <<drawn, saved>>
                      /\ UNCHANGED <<game, last_entry, agent, seeds, seed_i, rewards,
                                     visited_csv>>
                 [] Running.fn = "plot_eight_procgen_games" ->
                      /\ drawn' = drawn + 1
                      /\ IF game < NumGames
                         THEN /\ game' = game + 1
                              /\ CallEnded
                              /\ visited_csv' = {}
                              /\ UNCHANGED <<p_pc, saved>>
                         ELSE /\ saved' = {"procgen_results.png", "procgen_results.pkl"}
                              /\ p_pc' = "exit"
                              /\ UNCHANGED <<game, last_entry, agent, seeds, seed_i,
                                             rewards, visited_csv>>
                      /\ UNCHANGED <<agents, error>>
    /\ UNCHANGED <<args, called>>
    /\ UNCHANGED <<gap_rewards, gap_listed>>
    /\ UNCHANGED <<wvars, tvars>>

\* the functions that read the csv files themselves and assert that each
\* exists; plot_train_eval_curve also asserts its kind
AssertingPlots == {"plot_all_agents_reward_data", "plot_all_agents_generalization_gap",
                   "plot_train_eval_curve"}

OutputOf(c) ==
    CASE c.fn = "plot_all_agents_reward_data" -> "learning_curve.png"
      [] c.fn = "plot_all_agents_generalization_gap" -> "generalization_gap.png"
      [] c.fn = "plot_train_eval_curve" -> IF c.arg = "eval" THEN "eval_curve.png"
                                           ELSE "train_curve.png"
      [] c.fn = "plot_reward_curve" -> "learning_curve.png"

\* plot_all_agents_reward_data, plot_train_eval_curve and plot_reward_curve:
\* the file is saved, unless an
\* assertion (a progress.csv is missing) or the reading of the data fails
PlotOther ==
    /\ p_pc = "plotting"
    /\ \E e \in {"none", "AssertionError", "ValueError"} :
          /\ (e = "AssertionError") => Running.fn \in AssertingPlots
          /\ IF e = "none"
             THEN /\ saved' = {OutputOf(Running)}
                  /\ drawn' = drawn + 1
                  /\ p_pc' = "exit"
                  /\ error' = error
             ELSE /\ Raise(e)
                  /\ UNCHANGED <<saved, drawn>>
    /\ UNCHANGED <<args, called, game, last_entry, agent, seeds, seed_i, rewards,
                   visited_csv, returns, agents>>
    /\ UNCHANGED <<gap_rewards, gap_listed>>
    /\ UNCHANGED <<wvars, tvars>>

\* the listings of an agent directory plot_all_agents_generalization_gap
\* tells apart: it does not look at the number of steps of a csv, so
\* "complete" stands for every csv that holds rows
GapSeedLists == {l \in SeedLists : \A i \in DOMAIN l : l[i].csv # "incomplete"}

\* in the exp_dir given to plot_all_agents_generalization_gap the entries
\* with a capital first letter are plain files, the others agent directories
GapIsDir(name) == ~name.upper

\* plot_all_agents_generalization_gap, `if not os.path.isdir(agent_dir): continue`
GapSkipEntry ==
    /\ p_pc = "gap_listing"
    /\ \E n \in Names :
          /\ ~GapIsDir(n)
          /\ EntryNumber(n) = last_entry + 1
          /\ last_entry' = EntryNumber(n)
    /\ UNCHANGED <<args, called, p_pc, game, agent, seeds, seed_i, rewards,
                   visited_csv, returns, agents, drawn, error, saved>>
    /\ UNCHANGED <<gap_rewards, gap_listed>>
    /\ UNCHANGED <<wvars, tvars>>

\* plot_all_agents_generalization_gap: the next entry of exp_dir is a
\* directory, and its entries are listed
GapEnterAgentDir ==
    /\ p_pc = "gap_listing"
    /\ \E n \in Names, l \in GapSeedLists :
          /\ GapIsDir(n)
          /\ EntryNumber(n) = last_entry + 1
          /\ last_entry' = EntryNumber(n)
          /\ agent' = n
          /\ seeds' = l
          /\ seed_i' = 1
          /\ gap_listed' = gap_listed \cup {[agent |-> n, seeds |-> l]}
          /\ p_pc' = IF Len(l) = 0 THEN "gap_concat" ELSE "gap_seeds"
    /\ UNCHANGED <<args, called, game, rewards, visited_csv, returns, agents,
                   drawn, error, saved, gap_rewards>>
    /\ UNCHANGED <<wvars, tvars>>

\* the body of the seed loop of plot_all_agents_generalization_gap: the
\* exception it raises, "appended", or "discarded" when rewards is a
\* DataFrame, whose append returns a new frame (pandas before 2.0; from 2.0
\* on DataFrame has no append)
GapSeedOutcome(seed, kind, pandas2) ==
    IF seed.csv = "missing" THEN "AssertionError"          \* assert os.path.exists
    ELSE IF seed.csv = "empty" THEN "EmptyDataError"       \* pandas.read_csv
    ELSE IF ~seed.int_name THEN "ValueError"               \* int(seed)
    ELSE IF kind = "list" THEN "appended"                  \* list.append
    ELSE IF pandas2 THEN "AttributeError"                  \* DataFrame.append
    ELSE "discarded"

\* plot_all_agents_generalization_gap: one pass of the seed loop
GapReadSeed ==
    /\ p_pc = "gap_seeds"
    /\ \E pandas2 \in BOOLEAN :
          LET out == GapSeedOutcome(seeds[seed_i], gap_rewards.kind, pandas2)
          IN IF out \in {"appended", "discarded"}
             THEN /\ gap_rewards' = IF out = "appended"
                                    THEN [gap_rewards EXCEPT
                                            !.rows = @ \cup {<<agent, seed_i>>}]
                                    ELSE gap_rewards
                  /\ seed_i' = seed_i + 1
                  /\ p_pc' = IF seed_i = Len(seeds) THEN "gap_concat" ELSE "gap_seeds"
                  /\ error' = error
             ELSE /\ Raise(out)
                  /\ UNCHANGED <<gap_rewards, seed_i>>
    /\ UNCHANGED <<args, called, game, last_entry, agent, seeds, rewards, visited_csv,
                   returns, agents, drawn, saved, gap_listed>>
    /\ UNCHANGED <<wvars, tvars>>

\* plot_all_agents_generalization_gap, the last statement of the body of the
\* agent loop: rewards = pandas.concat(rewards, ignore_index=True), which
\* raises TypeError when rewards is a DataFrame already and ValueError when
\* it is an empty list
GapConcat ==
    /\ p_pc = "gap_concat"
    /\ IF gap_rewards.kind = "DataFrame"
       THEN /\ Raise("TypeError")
            /\ UNCHANGED gap_rewards
       ELSE IF gap_rewards.rows = {}
       THEN /\ Raise("ValueError")
            /\ UNCHANGED gap_rewards
       ELSE /\ gap_rewards' = [gap_rewards EXCEPT !.kind = "DataFrame"]
            /\ p_pc' = "gap_listing"
            /\ error' = error
    /\ UNCHANGED <<args, called, game, last_entry, agent, seeds, seed_i, rewards,
                   visited_csv, returns, agents, drawn, saved, gap_listed>>
    /\ UNCHANGED <<wvars, tvars>>

\* plot_all_agents_generalization_gap after the agent loop: sns.lineplot of
\* rewards and plt.savefig; seaborn rejects the empty list left when exp_dir
\* holds no directory
GapPlot ==
    /\ p_pc = "gap_listing"
    /\ IF gap_rewards.kind = "list"
       THEN /\ \E e \in {"ValueError", "TypeError"} : Raise(e)
            /\ UNCHANGED <<drawn, saved>>
       ELSE /\ drawn' = drawn + 1
            /\ saved' = {OutputOf(Running)}
            /\ p_pc' = "exit"
            /\ error' = error
    /\ UNCHANGED <<args, called, game, last_entry, agent, seeds, seed_i, rewards,
                   visited_csv, returns, agents, gap_rewards, gap_listed>>
    /\ UNCHANGED <<wvars, tvars>>

NextPlot ==
    \/ main \/ SkipEntry \/ EnterAgentDir \/ ReadSeed \/ EndListing \/ PlotOther
    \/ GapSkipEntry \/ GapEnterAgentDir \/ GapReadSeed \/ GapConcat \/ GapPlot

(***************************************************************************)
(* train.py                                                                *)
(***************************************************************************)
\* deque(maxlen=10)
DequeMaxLen == 10
\* save_success_rate(..., save_every=1)
SuccessSaveEvery == 1
\* save_total_reward(..., save_every=50)
RewardSaveEvery == 50

NoCalls == [act |-> 0, step |-> 0, observe |-> 0, reset |-> 0, save |-> 0, test |-> 0]
NoStep == [reward |-> 0, done |-> FALSE]

\* train.py when no training is under study
TrainOff ==
    /\ t_pc = "off"
    /\ params = [agent |-> "dqn", target_update_interval |-> 1,
                 ensemble_target_update_interval |-> 1, update_interval |-> 1,
                 steps |-> 0, saving_freq |-> 1]
    /\ caught = 0
    /\ step_number = 0
    /\ episode_number = 0
    /\ last_step = NoStep
    /\ env_log = <<>>
    /\ calls = NoCalls
    /\ total_reward = 0
    /\ success_rates = <<>>
    /\ success_rate_csv = <<>>
    /\ total_reward_csv = <<>>

\* the hyperparameters load_hyperparams and the command line may give to a
\* run of one of the given numbers of steps
Hyperparams(steps) ==
    [agent : {"dqn", "ensemble"},
     target_update_interval : {2, 4},
     ensemble_target_update_interval : {2},
     update_interval : {1, 2},
     steps : steps,
     saving_freq : {2}]

\* total_reward.csv in saving_dir before the run: absent, or left by an
\* earlier run
OldTotalRewardCsv == {<<>>, <<[step |-> 0, total |-> 1], [step |-> 50, total |-> 3]>>}

\* TrainEnsembleOfSkills.__init__ after load_hyperparams, before setup, with
\* hyperparameters of the set hyperparams
Constructed(hyperparams) ==
    /\ t_pc = "setup"
    /\ params \in hyperparams
    /\ caught = 0
    /\ step_number = 0
    /\ episode_number = 0
    /\ last_step = NoStep
    /\ env_log = <<>>
    /\ calls = NoCalls
    /\ total_reward = 0
    /\ success_rates = <<>>
    /\ success_rate_csv = <<>>
    /\ total_reward_csv \in OldTotalRewardCsv

\* the start of a training run of at most MaxSteps steps
TrainStarted == Constructed(Hyperparams(0 .. MaxSteps))

\* a bug variant: a mismatch is left as it is
check_params_validity_unchanged(p) == [params |-> p, caught |-> 0]

\* check_params_validity: the params it leaves and the number of
\* AssertionErrors its except clause caught
check_params_validity(p) ==
    LET new_interval == p.ensemble_target_update_interval * p.update_interval
    IN IF p.agent = "ensemble" /\ p.target_update_interval # new_interval
       THEN [params |-> [p EXCEPT !.target_update_interval = new_interval], caught |-> 1]
       ELSE [params |-> p, caught |-> 0]

\* setup: check_params_validity, the seeds, the directories, the environment
\* and the agent, then total_reward = 0 and success_rates = deque(maxlen=10)
setup ==
    /\ t_pc = "setup"
    /\ LET c == check_params_validity(params)
       IN /\ params' = c.params
          /\ caught' = caught + c.caught
    /\ total_reward' = 0
    /\ success_rates' = <<>>
    /\ t_pc' = "loop"
    /\ UNCHANGED <<step_number, episode_number, last_step, env_log, calls, success_rate_csv,
                   total_reward_csv>>
    /\ UNCHANGED <<wvars, pvars>>

\* a bug variant: the loop runs once more
LoopCondition_inclusive == step_number <= params.steps

\* train_option: while step_number < self.params['steps']
LoopCondition == step_number < params.steps

\* train_option: action = self.agent.act(state)
act ==
    /\ t_pc = "loop"
    /\ LoopCondition
    /\ calls' = [calls EXCEPT !.act = @ + 1]
    /\ t_pc' = "acted"
    /\ UNCHANGED <<params, caught, step_number, episode_number, last_step, env_log,
                   total_reward,
                   success_rates, success_rate_csv, total_reward_csv>>
    /\ UNCHANGED <<wvars, pvars>>

\* train_option: next_state, reward, done, info = self.env.step(action),
\* in an environment that may return any of outcomes
EnvStep(outcomes) ==
    /\ t_pc = "acted"
    /\ \E out \in outcomes : last_step' = out
    /\ env_log' = Append(env_log, last_step')
    /\ calls' = [calls EXCEPT !.step = @ + 1]
    /\ t_pc' = "stepped"
    /\ UNCHANGED <<params, caught, step_number, episode_number, total_reward,
                   success_rates, success_rate_csv, total_reward_csv>>
    /\ UNCHANGED <<wvars, pvars>>

\* env.step of an environment that may end an episode at any step, with
\* reward 0 or 1
env_step == EnvStep([reward : {0, 1}, done : BOOLEAN])

\* env.step of an environment with a time limit: every EpisodeLen-th step,
\* from the first on, ends an episode, with reward 1 (the goal was reached)
\* or 0; no other step is rewarded
env_step_timed ==
    EnvStep(IF step_number % EpisodeLen = 0
            THEN [reward : {0, 1}, done : {TRUE}]
            ELSE {NoStep})

\* train_option: self.agent.observe(state, action, reward, next_state, done)
observe ==
    /\ t_pc = "stepped"
    /\ calls' = [calls EXCEPT !.observe = @ + 1]
    /\ t_pc' = "observed"
    /\ UNCHANGED <<params, caught, step_number, episode_number, last_step, env_log,
                   total_reward,
                   success_rates, success_rate_csv, total_reward_csv>>
    /\ UNCHANGED <<wvars, pvars>>

\* a bug variant: a deque without maxlen
DequeAppend_unbounded(d, x) == Append(d, x)

\* deque.append on a deque(maxlen=10)
DequeAppend(d, x) ==
    IF Len(d) = DequeMaxLen THEN Append(Tail(d), x) ELSE Append(d, x)

\* np.mean of a list of booleans, as the pair (number of True, length)
Mean(d) == <<Cardinality({i \in DOMAIN d : d[i]}), Len(d)>>

\* a csv file after writerow(row) in mode 'w' (truncate) or 'a' (append)
WriteRow(csv, mode, row) == IF mode = "w" THEN <<row>> ELSE Append(csv, row)

\* save_success_rate: the deque and the rows of success_rate.csv it leaves
save_success_rate(success, episode, save_every) ==
    LET d == DequeAppend(success_rates, success)
    IN [success_rates |-> d,
        csv |-> IF episode % save_every = 0
                THEN WriteRow(success_rate_csv, IF episode = 0 THEN "w" ELSE "a",
                              [episode |-> episode, rate |-> Mean(d)])
                ELSE success_rate_csv]

\* a bug variant: only the rewards of the logged steps are added up
save_total_reward_logged_only(r, step_no, save_every) ==
    LET t == IF step_no % save_every = 0 THEN total_reward + r ELSE total_reward
    IN [total_reward |-> t,
        csv |-> IF step_no % save_every = 0
                THEN WriteRow(total_reward_csv, IF step_no = 0 THEN "w" ELSE "a",
                              [step |-> step_no, total |-> t])
                ELSE total_reward_csv]

\* save_total_reward: the total and the rows of total_reward.csv it leaves
save_total_reward(r, step_no, save_every) ==
    LET t == total_reward + r
    IN [total_reward |-> t,
        csv |-> IF step_no % save_every = 0
                THEN WriteRow(total_reward_csv, IF step_no = 0 THEN "w" ELSE "a",
                              [step |-> step_no, total |-> t])
                ELSE total_reward_csv]

\* train_option, the rest of the loop body: the end of an episode is logged
\* and the environment reset, save_total_reward, save_results, step_number += 1
finish_step ==
    /\ t_pc = "observed"
    /\ IF last_step.done
       THEN LET s == save_success_rate(last_step.done /\ last_step.reward = 1,
                                       episode_number, SuccessSaveEvery)
            IN /\ success_rates' = s.success_rates
               /\ success_rate_csv' = s.csv
               /\ episode_number' = episode_number + 1
       ELSE UNCHANGED <<success_rates, success_rate_csv, episode_number>>
    /\ LET t == save_total_reward(last_step.reward, step_number, RewardSaveEvery)
       IN /\ total_reward' = t.total_reward
          /\ total_reward_csv' = t.csv
    /\ calls' = [calls EXCEPT
                   !.reset = IF last_step.done THEN @ + 1 ELSE @,
                   !.save = IF step_number % params.saving_freq = 0 THEN @ + 1 ELSE @]
    /\ step_number' = step_number + 1
    /\ t_pc' = "loop"
    /\ UNCHANGED <<params, caught, last_step, env_log>>
    /\ UNCHANGED <<wvars, pvars>>

\* train_option after the loop: test_ensemble_agent(...)
test ==
    /\ t_pc = "loop"
    /\ ~LoopCondition
    /\ calls' = [calls EXCEPT !.test = @ + 1]
    /\ t_pc' = "done"
    /\ UNCHANGED <<params, caught, step_number, episode_number, last_step, env_log,
                   total_reward,
                   success_rates, success_rate_csv, total_reward_csv>>
    /\ UNCHANGED <<wvars, pvars>>

NextTrain == setup \/ act \/ env_step \/ observe \/ finish_step \/ test

\* the long training run: the shortest one that logs the total reward twice
LongSteps == RewardSaveEvery + 1

\* the start of the long training run, of an ensemble agent with valid
\* hyperparameters
TrainLongStarted ==
    Constructed({p \in Hyperparams({LongSteps}) :
                    /\ p.agent = "ensemble"
                    /\ p.update_interval = 1
                    /\ p.target_update_interval = 2})

NextTrainLong == setup \/ act \/ env_step_timed \/ observe \/ finish_step \/ test

(***************************************************************************)
(* Specifications                                                          *)
(***************************************************************************)
InitWrapper == WrapperConstructed /\ PlotOff /\ TrainOff
SpecWrapper == InitWrapper /\ [][NextWrapper]_vars

InitPlot == PlotStarted /\ WrapperOff /\ TrainOff
SpecPlot == InitPlot /\ [][NextPlot]_vars

InitTrain == TrainStarted /\ WrapperOff /\ PlotOff
SpecTrain == InitTrain /\ [][NextTrain]_vars
\* the training script is one sequential thread: it takes its next step
SpecTrainFair == SpecTrain /\ WF_vars(NextTrain)

\* the long training run in the environment with a time limit
InitTrainLong == TrainLongStarted /\ WrapperOff /\ PlotOff
SpecTrainLong == InitTrainLong /\ [][NextTrainLong]_vars

\* either script, run on its own
InitScripts == InitPlot \/ InitTrain
NextScripts == NextPlot \/ NextTrain
SpecScripts == InitScripts /\ [][NextScripts]_vars

(***************************************************************************)
(* Properties of MonteLadderGoalWrapper                                    *)
(***************************************************************************)
\* the player is in the wrapper's room, strictly nearer than epsilon_tol to
\* one of the goals of goal_regions
NearGoalInStartRoom ==
    /\ ram.room = room_number
    /\ \E i \in DOMAIN goal_regions.goals :
          SqNorm(ram.pos, goal_regions.goals[i]) < epsilon_tol * epsilon_tol

\* the player's (x, y) is nearer than epsilon_tol to a goal, whatever the room
NearGoalPosition ==
    \E i \in DOMAIN goal_regions.goals :
        SqNorm(ram.pos, goal_regions.goals[i]) < epsilon_tol * epsilon_tol

\* C1: with info_only = False, step returns reward 1 and done True when the
\* player ends in the wrapper's room strictly nearer than epsilon_tol to one
\* of its goals, and reward 0 in every other case, whatever the wrapped
\* environment's reward was.
C1_GoalRewardOverride ==
    (w_pc = "stepped" /\ ~info_only) =>
        IF NearGoalInStartRoom
        THEN ret.reward = 1 /\ ret.done = TRUE
        ELSE ret.reward = 0

\* the wrapped environment paid a key's reward on the step that reached a
\* goal, and the wrapper returned 1
C1_Witness ==
    /\ w_pc = "stepped" /\ ~info_only
    /\ NearGoalInStartRoom
    /\ env_out.reward = 100 /\ ~env_out.done
    /\ ret.reward = 1 /\ ret.done

\* C2: with info_only = True, step returns the wrapped environment's reward
\* and done as they were, and nothing of the wrapped environment is modified:
\* needs_real_reset stays as the wrapped step left it.
C2_InfoOnlyTouchesNothing ==
    (w_pc = "stepped" /\ info_only) =>
        /\ ret.reward = env_out.reward
        /\ ret.done = env_out.done
        /\ needs_real_reset = env_out.needs_real_reset

\* C3: with info_only = False, a step that ends in another room than the
\* wrapper's returns done True, reward 0 and reached_goal False, also when
\* the (x, y) position is within epsilon_tol of a goal of the starting room.
C3_OtherRoomTerminates ==
    (w_pc = "stepped" /\ ~info_only /\ ram.room # room_number) =>
        /\ ret.done = TRUE
        /\ ret.reward = 0
        /\ ret.info.reached_goal = FALSE

\* in another room, on the coordinates of a goal of the starting room, with
\* the wrapped environment not done
C3_Witness ==
    /\ w_pc = "stepped" /\ ~info_only
    /\ ram.room # room_number
    /\ NearGoalPosition
    /\ ~env_out.done
    /\ ret.done /\ ret.reward = 0

\* C4: room_number and goal_regions are those of the room the wrapper was
\* constructed in, and no step or reset changes them.
C4_GoalsFixedAtConstruction ==
    /\ [](goal_regions.room = room_number
          /\ Len(goal_regions.goals) = NumGoalFiles(room_number))
    /\ [][room_number' = room_number /\ goal_regions' = goal_regions]_vars

\* the player has moved to another room and the wrapper still holds the
\* goals of the room it started in
C4_Witness ==
    /\ w_pc \in {"stepped", "reset"}
    /\ ram.room # room_number
    /\ goal_regions.room = room_number

(***************************************************************************)
(* Properties of plot.py                                                   *)
(***************************************************************************)
\* the flags that select a function, in the order of their priority
Priority == <<"compare", "gap", "evaluation", "train", "transfer", "procgen">>

\* the position in Priority of the first flag that is set, 0 when none is
FirstSet(a) ==
    IF \E i \in DOMAIN Priority : a[Priority[i]]
    THEN CHOOSE i \in DOMAIN Priority :
            a[Priority[i]] /\ \A j \in 1 .. (i - 1) : ~a[Priority[j]]
    ELSE 0

\* the function each selecting flag stands for
FunctionOf(flag) ==
    CASE flag = "compare" -> "plot_all_agents_reward_data"
      [] flag = "gap" -> "plot_all_agents_generalization_gap"
      [] flag = "evaluation" -> "plot_train_eval_curve"
      [] flag = "train" -> "plot_train_eval_curve"
      [] flag = "procgen" -> "plot_eight_procgen_games"

\* the command lines that differ from a at most in --debug and --unrolled
DebugUnrolledVariants(a) ==
    {[a EXCEPT !["debug"] = d, !["unrolled"] = u] : d, u \in BOOLEAN}

\* C5: whatever the flags, exactly one plotting function runs, that of the
\* first set flag in the order compare, gap, evaluation, train, transfer,
\* procgen, and plot_reward_curve when none is set; --debug and --unrolled
\* matter only when --transfer is the selected flag, where --debug selects
\* the all-level plot whatever --unrolled is.
C5_OneFunctionByPriority ==
    (p_pc \notin {"off", "main"}) =>
        /\ Len(called) = 1
        /\ LET k == FirstSet(args)
               c == called[1]
           IN /\ (k = 0) => c = Call("plot_reward_curve", "none")
              /\ (k # 0 /\ Priority[k] # "transfer") =>
                    /\ c.fn = FunctionOf(Priority[k])
                    /\ c.arg = (CASE Priority[k] = "evaluation" -> "eval"
                                  [] Priority[k] = "train" -> "train"
                                  [] OTHER -> "none")
                    /\ \A b \in DebugUnrolledVariants(args) : Dispatch(b) = c
              /\ (k # 0 /\ Priority[k] = "transfer") =>
                    IF args["debug"]
                    THEN c = Call("plot_transfer_exp_all_level_curves", "none")
                    ELSE c = Call("plot_transfer_exp_training_curve_across_levels",
                                  IF args["unrolled"] THEN "unrolled" ELSE "averaged")

\* --compare and --gap are both set, with --transfer, --debug and --unrolled
\* set as well, and the comparison plot has run
C5_Witness ==
    /\ p_pc = "exit"
    /\ args["compare"] /\ args["gap"] /\ args["transfer"]
    /\ args["debug"] /\ args["unrolled"]
    /\ called = <<Call("plot_all_agents_reward_data", "none")>>

\* a progress.csv that is missing or whose last total_steps is not 10,000,000
BadCsv(d) == d.csv \in {"missing", "incomplete"}

\* the agent directory process_training_curve_csv_file is reading lists a
\* seed directory with such a file
BadCsvListed ==
    /\ called # <<>>
    /\ Running.fn \in ProcessCallers
    /\ \E i \in DOMAIN seeds : BadCsv(seeds[i])

\* process_training_curve_csv_file returns only from directories whose
\* progress.csv files are all complete
ReturnsOnlyComplete ==
    [][returns' > returns => visited_csv \subseteq {"complete"}]_vars

\* C7 as stated: the function returns only when every progress.csv it met is
\* complete, and when one is missing or incomplete the call fails with an
\* assertion error and no output file is saved.
C7_AssertionErrorOnBadCsv ==
    (p_pc \in {"raised", "exit"} /\ BadCsvListed) =>
        /\ p_pc = "raised"
        /\ error = "AssertionError"
        /\ saved = {}

\* C7, amended: the function returns only when every progress.csv it met is
\* complete; when one is missing or incomplete the call raises, returns
\* nothing and no output file is saved, and the exception is the one of the
\* first faulty seed directory in listing order: an assertion error for a
\* missing or incomplete csv, EmptyDataError for an empty csv, ValueError
\* for a directory name that is not an integer.
C7_FirstFaultySeedRaises ==
    /\ ReturnsOnlyComplete
    /\ []((p_pc \in {"raised", "exit"} /\ BadCsvListed) =>
            /\ p_pc = "raised"
            /\ saved = {}
            /\ \A j \in 1 .. (seed_i - 1) : seeds[j].csv = "complete" /\ seeds[j].int_name
            /\ LET f == seeds[seed_i]
               IN error = (IF BadCsv(f) THEN "AssertionError"
                           ELSE IF f.csv = "empty" THEN "EmptyDataError"
                           ELSE "ValueError"))

\* the second agent directory read has a complete csv followed by an
\* incomplete one, and the assertion ended the transfer plot with no file
C7_Witness ==
    /\ p_pc = "raised" /\ error = "AssertionError"
    /\ Running.fn = "plot_transfer_exp_training_curve_across_levels"
    /\ rewards # {}
    /\ seed_i = 2 /\ seeds[seed_i].csv = "incomplete"
    /\ saved = {}

\* C8: all_level_learning_curve.png is saved only when the processed data
\* holds exactly 4 distinct agents; with any other number the function fails
\* with an assertion error before a subplot is drawn or a file is saved.
C8_FourAgentsOrAssertion ==
    /\ ("all_level_learning_curve.png" \in saved) => Cardinality(agents) = 4
    /\ (/\ p_pc \notin {"off", "main"}
        /\ Running.fn = "plot_transfer_exp_all_level_curves"
        /\ returns > 0
        /\ Cardinality(agents) # 4) =>
            /\ p_pc = "raised"
            /\ error = "AssertionError"
            /\ drawn = 0
            /\ saved = {}

\* four agents were plotted and saved
C8_Witness ==
    /\ p_pc = "exit"
    /\ "all_level_learning_curve.png" \in saved
    /\ Cardinality(agents) = 4
    /\ drawn = 4

\* the seed directories whose progress.csv plot_all_agents_generalization_gap
\* can read and whose name is an integer
GapReadable(seed) == seed.csv \notin {"missing", "empty"} /\ seed.int_name

\* every agent directory listed holds seeds, all of them readable
GapInputsReadable ==
    /\ gap_listed # {}
    /\ \A d \in gap_listed :
          /\ Len(d.seeds) > 0
          /\ \A i \in DOMAIN d.seeds : GapReadable(d.seeds[i])

\* the (agent, seed) pairs of the agent directories listed
GapListedRows == UNION {{<<d.agent, i>> : i \in DOMAIN d.seeds} : d \in gap_listed}

\* C13: plot_all_agents_generalization_gap, for any number of agent
\* directories with readable seeds, ends by plotting, and the data handed to
\* the plot holds the rows of every agent and every seed
C13_EveryAgentAndSeedPlotted ==
    (/\ p_pc \in {"exit", "raised"}
     /\ Running.fn = "plot_all_agents_generalization_gap"
     /\ GapInputsReadable) =>
        /\ p_pc = "exit"
        /\ gap_rewards.kind = "DataFrame"
        /\ gap_rewards.rows = GapListedRows

(***************************************************************************)
(* Properties of train.py and of the scripts' error handling               *)
(***************************************************************************)
\* C6 as stated: an assertion that fails ends the script with its
\* exception; none is caught.
C6_NoAssertionCaught ==
    /\ (error = "AssertionError") => p_pc = "raised"
    /\ caught = 0

\* C6, amended: in plot.py a failed assertion ends the script, which does
\* nothing more; the assertion of check_params_validity is caught, the
\* target_update_interval is set to the product and the training goes on.
C6_AssertionsEndPlotsOnly ==
    /\ []((error = "AssertionError") => p_pc = "raised")
    /\ [][(p_pc = "raised") => (pvars' = pvars)]_vars
    /\ []((caught > 0) =>
            /\ caught = 1
            /\ params.agent = "ensemble"
            /\ params.target_update_interval =
                   params.ensemble_target_update_interval * params.update_interval
            /\ t_pc \in {"loop", "acted", "stepped", "observed", "done"})

\* the assertion on the number of agents failed and ended the script
C6_Witness ==
    /\ p_pc = "raised" /\ error = "AssertionError"
    /\ Running.fn = "plot_transfer_exp_all_level_curves"
    /\ returns = 1 /\ Cardinality(agents) = 3
    /\ saved = {}

\* the calls made so far, given the position in the loop body
CallsInOrder ==
    /\ t_pc \in {"setup", "loop", "done"} =>
          calls.act = step_number /\ calls.step = step_number
          /\ calls.observe = step_number
    /\ t_pc = "acted" =>
          calls.act = step_number + 1 /\ calls.step = step_number
          /\ calls.observe = step_number
    /\ t_pc = "stepped" =>
          calls.act = step_number + 1 /\ calls.step = step_number + 1
          /\ calls.observe = step_number
    /\ t_pc = "observed" =>
          calls.act = step_number + 1 /\ calls.step = step_number + 1
          /\ calls.observe = step_number + 1

\* C9: train_option is one loop that ends after exactly params['steps']
\* iterations; each iteration calls agent.act, env.step and agent.observe
\* once, in that order, with step_number 0, 1, ..., steps - 1; and
\* test_ensemble_agent is called once, after the last training step.
C9_LoopRunsStepsTimes ==
    /\ [](/\ CallsInOrder
          /\ step_number <= params.steps
          /\ (t_pc \in {"acted", "stepped", "observed"}) => step_number < params.steps
          /\ calls.test = (IF t_pc = "done" THEN 1 ELSE 0)
          /\ (t_pc = "done") => step_number = params.steps)
    /\ [][step_number' \in {step_number, step_number + 1}]_vars
    /\ <>(t_pc = "done")

\* the longest training of the model has ended and been tested
C9_Witness ==
    /\ t_pc = "done"
    /\ params.steps = MaxSteps
    /\ calls.act = MaxSteps /\ calls.step = MaxSteps /\ calls.observe = MaxSteps
    /\ calls.test = 1

\* the period the docstring of save_success_rate gives
DocumentedSaveEvery == 5

\* C10: success_rate.csv gets a row only for the episode numbers that are
\* multiples of 5.
C10_RowEveryFiveEpisodes ==
    \A i \in DOMAIN success_rate_csv :
        success_rate_csv[i].episode % DocumentedSaveEvery = 0

(***************************************************************************)
(* Properties of the logs of train.py                                      *)
(***************************************************************************)
\* the last steps of the episodes env.step has ended, in order
IsLastStep(o) == o.done
EpisodeEnds == SelectSeq(env_log, IsLastStep)

\* the successful ones among the episodes lo..hi (numbered from 0), of which
\* ends are the last steps: an episode counts as successful when its last
\* step returned done with reward 1
SuccessesAmong(ends, lo, hi) ==
    {k \in lo .. hi : ends[k + 1].done /\ ends[k + 1].reward = 1}

\* C11: the success rate written for episode n is the fraction of successful
\* episodes among the last min(10, n+1) finished episodes up to and
\* including episode n; older episodes do not influence it
C11_RateOverLastTen ==
    LET ends == EpisodeEnds
    IN \A i \in DOMAIN success_rate_csv :
          LET n == success_rate_csv[i].episode
              rate == success_rate_csv[i].rate
              window == IF n + 1 < 10 THEN n + 1 ELSE 10
          IN /\ n < Len(ends)
             /\ rate[2] > 0
             /\ rate[1] * window
                   = Cardinality(SuccessesAmong(ends, n + 1 - window, n)) * rate[2]

\* a row is written for an episode after the tenth, and a successful episode
\* has left the window
C11_Witness ==
    LET ends == EpisodeEnds
    IN \E i \in DOMAIN success_rate_csv :
          LET n == success_rate_csv[i].episode
          IN /\ n >= 10
             /\ n < Len(ends)
             /\ SuccessesAmong(ends, 0, n - 10) # {}
             /\ SuccessesAmong(ends, n - 9, n) # {}
             /\ success_rate_csv[i].rate[1] < Cardinality(SuccessesAmong(ends, 0, n))

\* the sum of the rewards env.step returned in the training steps 0..s
RECURSIVE RewardsUpTo(_)
RewardsUpTo(s) == IF s < 0 THEN 0 ELSE env_log[s + 1].reward + RewardsUpTo(s - 1)

\* the training steps whose loop body has run to its end
StepsDone == 0 .. step_number - 1

\* C12: once step 0 has been logged, total_reward.csv holds one row exactly
\* for the training steps that are multiples of 50, from step 0 on (rows of
\* an earlier run are gone), and the row for step s holds the sum of the
\* rewards of the steps 0..s
C12_TotalRewardRows ==
    (step_number > 0) =>
        /\ Len(total_reward_csv) = Cardinality({s \in StepsDone : s % 50 = 0})
        /\ \A i \in DOMAIN total_reward_csv :
              LET s == total_reward_csv[i].step
              IN /\ s = 50 * (i - 1)
                 /\ s \in StepsDone
                 /\ total_reward_csv[i].total = RewardsUpTo(s)

\* the row of step 50 is written after the row of step 0, both after a
\* rewarded step, with rewards of several episodes in between
C12_Witness ==
    /\ Len(total_reward_csv) = 2
    /\ total_reward_csv[1] = [step |-> 0, total |-> 1]
    /\ total_reward_csv[2].step = 50
    /\ total_reward_csv[2].total > 2
    /\ episode_number > 2

\* C14: check_params_validity, run by setup, leaves an ensemble agent with
\* target_update_interval = ensemble_target_update_interval * update_interval
\* whatever it was before, touching no other parameter and ending in no
\* error, and leaves every parameter of a dqn agent as it was
C14_IntervalCorrectedInPlace ==
    [][(t_pc = "setup") =>
          /\ t_pc' = "loop"
          /\ IF params.agent = "ensemble"
             THEN /\ params'.target_update_interval
                       = params.ensemble_target_update_interval * params.update_interval
                  /\ \A k \in DOMAIN params \ {"target_update_interval"} :
                        params'[k] = params[k]
             ELSE params' = params]_vars

\* setup has corrected the interval of an ensemble agent
C14_Witness ==
    /\ t_pc = "loop"
    /\ params.agent = "ensemble"
    /\ caught = 1
    /\ params.target_update_interval
          = params.ensemble_target_update_interval * params.update_interval

====
